---- MODULE Spec2Model ----
(***************************************************************************)
(* A model of the agent control loop of tiny_web_nav_agent (src/agent.py): *)
(* the action parser, the conversation builder with its image trimming,    *)
(* the step executor and WebNavAgent.run.                                   *)
(*                                                                         *)
(* Text is modelled as a sequence of characters (one-character strings).   *)
(* A literal fragment of a message built by the code is kept as one        *)
(* element of the sequence, so "Unknown action: Foo" is                    *)
(* <<"Unknown action: ", "F", "o", "o">>.  Model replies, which the parser *)
(* scans, are sequences of single characters only.                         *)
(***************************************************************************)
EXTENDS Integers, Sequences, FiniteSets, TLC

\* ------------------------------------------------------------------ bounds
MaxSteps == 4
MaxImages == 2
MaxLen == 4
MaxK == 3

\* ---------------------------------------------------------- Python values
None == [none |-> TRUE]
Some(v) == [none |-> FALSE, val |-> v]
EmptyArgs == <<>>

\* ------------------------------------------------------ character classes
UpperSeq == <<"A", "B", "C", "D", "E", "F", "G", "H", "I", "J", "K", "L", "M",
              "N", "O", "P", "Q", "R", "S", "T", "U", "V", "W", "X", "Y", "Z">>
LowerSeq == <<"a", "b", "c", "d", "e", "f", "g", "h", "i", "j", "k", "l", "m",
              "n", "o", "p", "q", "r", "s", "t", "u", "v", "w", "x", "y", "z">>
DigitSeq == <<"0", "1", "2", "3", "4", "5", "6", "7", "8", "9">>
Range(f) == {f[j] : j \in DOMAIN f}
DigitChars == Range(DigitSeq)
WordChars == Range(UpperSeq) \cup Range(LowerSeq) \cup DigitChars \cup {"_"}
SpaceChars == {" ", "\n", "\t", "\r"}
QuoteChars == {"'", "\""}

\* ----------------------------------------------------------- str helpers
\* first position >= p whose character is not in S (Len(s)+1 if none)
SkipWhile(s, p, S) ==
    CHOOSE q \in p..(Len(s) + 1) :
        /\ \A j \in p..(q - 1) : s[j] \in S
        /\ (q = Len(s) + 1 \/ s[q] \notin S)

\* first position >= p whose character is c (Len(s)+1 if none)
SkipUntil(s, p, c) ==
    CHOOSE q \in p..(Len(s) + 1) :
        /\ \A j \in p..(q - 1) : s[j] # c
        /\ (q = Len(s) + 1 \/ s[q] = c)

StartsAt(s, p, lit) ==
    /\ p + Len(lit) - 1 <= Len(s)
    /\ \A j \in 1..Len(lit) : s[p + j - 1] = lit[j]

\* str.strip(chars): a is the first position that stays
StripFrom(s, S, a) ==
    IF a > Len(s) THEN <<>>
    ELSE SubSeq(s, a, CHOOSE e \in a..Len(s) :
                        /\ s[e] \notin S
                        /\ \A j \in (e + 1)..Len(s) : s[j] \in S)
StripChars(s, S) == StripFrom(s, S, SkipWhile(s, 1, S))

\* str.strip()
Strip(s) == StripChars(s, SpaceChars)

\* str.split(",")
RECURSIVE Split(_)
Split(s) ==
    LET q == SkipUntil(s, 1, ",")
    IN  IF q > Len(s) THEN <<s>>
        ELSE <<SubSeq(s, 1, q - 1)>> \o Split(SubSeq(s, q + 1, Len(s)))

\* str.lower()
LowerChar(c) ==
    IF c \in Range(UpperSeq)
    THEN LowerSeq[CHOOSE j \in 1..26 : UpperSeq[j] = c]
    ELSE c
Lower(s) == [j \in 1..Len(s) |-> LowerChar(s[j])]

DigitVal(c) == (CHOOSE j \in 1..10 : DigitSeq[j] = c) - 1

RECURSIVE DigitsVal(_)
DigitsVal(s) ==
    IF s = <<>> THEN 0
    ELSE DigitsVal(SubSeq(s, 1, Len(s) - 1)) * 10 + DigitVal(s[Len(s)])

\* int(str): optional surrounding whitespace, optional sign, decimal digits
\* with single underscores between digits; anything else is a ValueError
WellFormedInt(body) ==
    /\ body # <<>>
    /\ \A j \in 1..Len(body) : body[j] \in DigitChars \cup {"_"}
    /\ body[1] # "_" /\ body[Len(body)] # "_"
    /\ \A j \in 1..(Len(body) - 1) : ~(body[j] = "_" /\ body[j + 1] = "_")
IntOfBody(negative, body) ==
    IF WellFormedInt(body)
    THEN [ok |-> TRUE,
          val |-> (IF negative THEN 0 - 1 ELSE 1)
                  * DigitsVal(SelectSeq(body, LAMBDA c : c # "_"))]
    ELSE [ok |-> FALSE, val |-> 0]
IntOfStripped(t) ==
    IF t # <<>> /\ t[1] \in {"+", "-"}
    THEN IntOfBody(t[1] = "-", Tail(t))
    ELSE IntOfBody(FALSE, t)
IntParse(s) == IntOfStripped(Strip(s))

\* str(int), as used by the f-strings
RECURSIVE NatToStr(_)
NatToStr(n) ==
    IF n < 10 THEN <<DigitSeq[n + 1]>>
    ELSE NatToStr(n \div 10) \o <<DigitSeq[(n % 10) + 1]>>
IntToStr(n) == IF n < 0 THEN <<"-">> \o NatToStr(0 - n) ELSE NatToStr(n)

\* repr(str) for text without backslashes or control characters: double
\* quotes when the text holds ' and no ", else single quotes with ' escaped
RECURSIVE EscapeQuote(_)
EscapeQuote(s) ==
    IF s = <<>> THEN <<>>
    ELSE (IF Head(s) = "'" THEN <<"\\", "'">> ELSE <<Head(s)>>) \o EscapeQuote(Tail(s))
Repr(s) ==
    IF (\E j \in 1..Len(s) : s[j] = "'") /\ ~(\E j \in 1..Len(s) : s[j] = "\"")
    THEN <<"\"">> \o s \o <<"\"">>
    ELSE <<"'">> \o EscapeQuote(s) \o <<"'">>

\* ------------------------------------------------------ parse_action
ActionTok == <<"A", "c", "t", "i", "o", "n", ":">>
ClickS == <<"C", "l", "i", "c", "k">>
ScrollS == <<"S", "c", "r", "o", "l", "l">>
TypeS == <<"T", "y", "p", "e">>
PressS == <<"P", "r", "e", "s", "s">>
CallUserS == <<"C", "a", "l", "l", "U", "s", "e", "r">>
WaitS == <<"W", "a", "i", "t">>
FinishedS == <<"F", "i", "n", "i", "s", "h", "e", "d">>
UpS == <<"u", "p">>
DownS == <<"d", "o", "w", "n">>

NoMatch == [ok |-> FALSE, name |-> <<>>, args |-> <<>>]

\* a match of  Action:\s*(\w+)\(([^)]*)\)  starting at position p:
\* the name runs from q to r-1, the arguments from r+1 to t-1
CallFrom(s, q, r, t) ==
    IF r > q /\ r <= Len(s) /\ s[r] = "(" /\ t <= Len(s)
    THEN [ok |-> TRUE, name |-> SubSeq(s, q, r - 1), args |-> SubSeq(s, r + 1, t - 1)]
    ELSE NoMatch
CallName(s, q, r) == CallFrom(s, q, r, SkipUntil(s, r + 1, ")"))
CallSpace(s, q) == CallName(s, q, SkipWhile(s, q, WordChars))
MatchCallAt(s, p) ==
    IF ~StartsAt(s, p, ActionTok) THEN NoMatch
    ELSE CallSpace(s, SkipWhile(s, p + Len(ActionTok), SpaceChars))

\* a match of  Action:\s*(\w+)  starting at position p
LineFrom(s, q, r) ==
    IF r > q THEN [ok |-> TRUE, name |-> SubSeq(s, q, r - 1), args |-> <<>>]
    ELSE NoMatch
LineSpace(s, q) == LineFrom(s, q, SkipWhile(s, q, WordChars))
MatchLineAt(s, p) ==
    IF ~StartsAt(s, p, ActionTok) THEN NoMatch
    ELSE LineSpace(s, SkipWhile(s, p + Len(ActionTok), SpaceChars))

\* re.search: the leftmost match
Leftmost(P) == CHOOSE p \in P : \A o \in P : p <= o
CallAmong(s, P) == IF P = {} THEN NoMatch ELSE MatchCallAt(s, Leftmost(P))
SearchCall(s) == CallAmong(s, {p \in 1..Len(s) : MatchCallAt(s, p).ok})
LineAmong(s, P) == IF P = {} THEN NoMatch ELSE MatchLineAt(s, Leftmost(P))
SearchLine(s) == LineAmong(s, {p \in 1..Len(s) : MatchLineAt(s, p).ok})

Action(name, args) == [name |-> name, args |-> args, error |-> None]
ErrorAction(msg) == [name |-> "Error", args |-> EmptyArgs, error |-> Some(msg)]

Parsed(a) == [ok |-> TRUE, action |-> a, err |-> <<>>]
ActionParseError(msg) == [ok |-> FALSE, action |-> Action("Error", EmptyArgs), err |-> msg]
ValueError(part) ==
    ActionParseError(<<"Invalid argument format: ",
                       "invalid literal for int() with base 10: ">> \o Repr(part))

StripAll(parts) == [j \in 1..Len(parts) |-> Strip(parts[j])]

ClickOfXY_unchecked(x, y) == Parsed(Action("Click", [x |-> x, y |-> y]))
ClickOfXY(x, y) ==
    IF ~(0 <= x /\ x <= 1000 /\ 0 <= y /\ y <= 1000)
    THEN ActionParseError(<<"Coordinates must be 0-1000, got (">>
                          \o IntToStr(x) \o <<", ">> \o IntToStr(y) \o <<")">>)
    ELSE Parsed(Action("Click", [x |-> x, y |-> y]))
ClickOfInts(parts, px, py) ==
    IF ~px.ok THEN ValueError(parts[1])
    ELSE IF ~py.ok THEN ValueError(parts[2])
    ELSE ClickOfXY(px.val, py.val)
ClickOfParts(parts) ==
    IF Len(parts) # 2
    THEN ActionParseError(<<"Click requires exactly 2 arguments (x, y), got ">>
                          \o IntToStr(Len(parts)))
    ELSE ClickOfInts(parts, IntParse(parts[1]), IntParse(parts[2]))
ParseClick(args_str) ==
    IF args_str = <<>>
    THEN ActionParseError(<<"Click requires coordinates: Click(x, y)">>)
    ELSE ClickOfParts(StripAll(Split(args_str)))

ScrollOfDirection(x, y, direction) ==
    IF direction \notin {UpS, DownS}
    THEN ActionParseError(<<"Scroll direction must be 'up' or 'down', got '">>
                          \o direction \o <<"'">>)
    ELSE Parsed(Action("Scroll", [x |-> x, y |-> y, direction |-> direction]))
ScrollOfInts_as_written(parts, px, py) ==
    IF ~px.ok THEN ValueError(parts[1])
    ELSE IF ~py.ok THEN ValueError(parts[2])
    ELSE ScrollOfDirection(px.val, py.val, parts[3])
ScrollOfInts(parts, px, py) ==
    IF ~px.ok THEN ValueError(parts[1])
    ELSE IF ~py.ok THEN ValueError(parts[2])
    ELSE ScrollOfDirection(px.val, py.val, Lower(StripChars(parts[3], QuoteChars)))
ScrollOfParts(parts) ==
    IF Len(parts) # 3
    THEN ActionParseError(<<"Scroll requires 3 arguments (x, y, direction), got ">>
                          \o IntToStr(Len(parts)))
    ELSE ScrollOfInts(parts, IntParse(parts[1]), IntParse(parts[2]))
ParseScroll(args_str) ==
    IF args_str = <<>>
    THEN ActionParseError(<<"Scroll requires arguments: Scroll(x, y, direction)">>)
    ELSE ScrollOfParts(StripAll(Split(args_str)))

\* the branch on the name of a parenthesized call
ActionOfCall_open_set(name, args_str) ==
    IF name = ClickS THEN ParseClick(args_str)
    ELSE IF name = ScrollS THEN ParseScroll(args_str)
    ELSE IF name = TypeS
    THEN IF args_str = <<>>
         THEN ActionParseError(<<"Type requires content: Type(text to type)">>)
         ELSE Parsed(Action("Type", [content |-> args_str]))
    ELSE IF name = PressS
    THEN IF args_str = <<>>
         THEN ActionParseError(<<"Press requires a key: Press(Enter)">>)
         ELSE Parsed(Action("Press", [key |-> args_str]))
    ELSE IF name = CallUserS
    THEN IF args_str = <<>>
         THEN ActionParseError(
                <<"CallUser requires a question: CallUser(your question here)">>)
         ELSE Parsed(Action("CallUser", [question |-> args_str]))
    ELSE Parsed(Action(IF name = WaitS THEN "Wait"
                       ELSE IF name = FinishedS THEN "Finished" ELSE "Other",
                       EmptyArgs))
ActionOfCall_first_part(name, args_str) ==
    IF name = ClickS THEN ParseClick(args_str)
    ELSE IF name = ScrollS THEN ParseScroll(args_str)
    ELSE IF name = TypeS
    THEN IF args_str = <<>>
         THEN ActionParseError(<<"Type requires content: Type(text to type)">>)
         ELSE Parsed(Action("Type", [content |-> Strip(Split(args_str)[1])]))
    ELSE IF name = PressS
    THEN IF args_str = <<>>
         THEN ActionParseError(<<"Press requires a key: Press(Enter)">>)
         ELSE Parsed(Action("Press", [key |-> Strip(Split(args_str)[1])]))
    ELSE IF name = CallUserS
    THEN IF args_str = <<>>
         THEN ActionParseError(
                <<"CallUser requires a question: CallUser(your question here)">>)
         ELSE Parsed(Action("CallUser", [question |-> Strip(Split(args_str)[1])]))
    ELSE IF name \in {WaitS, FinishedS}
    THEN Parsed(Action(IF name = WaitS THEN "Wait" ELSE "Finished", EmptyArgs))
    ELSE ActionParseError(<<"Unknown action: ">> \o name)
ActionOfCall(name, args_str) ==
    IF name = ClickS THEN ParseClick(args_str)
    ELSE IF name = ScrollS THEN ParseScroll(args_str)
    ELSE IF name = TypeS
    THEN IF args_str = <<>>
         THEN ActionParseError(<<"Type requires content: Type(text to type)">>)
         ELSE Parsed(Action("Type", [content |-> args_str]))
    ELSE IF name = PressS
    THEN IF args_str = <<>>
         THEN ActionParseError(<<"Press requires a key: Press(Enter)">>)
         ELSE Parsed(Action("Press", [key |-> args_str]))
    ELSE IF name = CallUserS
    THEN IF args_str = <<>>
         THEN ActionParseError(
                <<"CallUser requires a question: CallUser(your question here)">>)
         ELSE Parsed(Action("CallUser", [question |-> args_str]))
    ELSE IF name \in {WaitS, FinishedS}
    THEN Parsed(Action(IF name = WaitS THEN "Wait" ELSE "Finished", EmptyArgs))
    ELSE ActionParseError(<<"Unknown action: ">> \o name)

\* the fallback on a bare  Action: Name
ActionOfLine_no_hint(action_line) ==
    IF action_line.ok /\ action_line.name \in {WaitS, FinishedS}
    THEN Parsed(Action(IF action_line.name = WaitS THEN "Wait" ELSE "Finished",
                       EmptyArgs))
    ELSE ActionParseError(
           <<"No valid action found in response. Expected format: Action: Name(args)">>)
ActionOfLine(action_line) ==
    IF action_line.ok
    THEN IF action_line.name \in {WaitS, FinishedS}
         THEN Parsed(Action(IF action_line.name = WaitS THEN "Wait" ELSE "Finished",
                            EmptyArgs))
         ELSE ActionParseError(<<"Action '">> \o action_line.name
                               \o <<"' requires arguments but none provided">>)
    ELSE ActionParseError(
           <<"No valid action found in response. Expected format: Action: Name(args)">>)

ActionOfMatch(response, action_match) ==
    IF ~action_match.ok THEN ActionOfLine(SearchLine(response))
    ELSE ActionOfCall(action_match.name, Strip(action_match.args))

parse_action(response) == ActionOfMatch(response, SearchCall(response))

\* ------------------------------------------------------ messages
\* a message content is either a str or a list of typed parts
StrContent(text) == [kind |-> "str", text |-> text]
ListContent(parts) == [kind |-> "list", parts |-> parts]
TextMessage(role, text) == [role |-> role, content |-> StrContent(text)]
TextPart(text) == [type |-> "text", text |-> text]
ImagePart(b64) == [type |-> "image_url", url |-> <<"data:image/png;base64,", b64>>]
BrowserState(shot, url) == [screenshot_b64 |-> shot, url |-> url]
SYSTEM_PROMPT == <<"You are a web navigation agent.">>

\* truthiness of an optional str: None and "" are false
Truthy(opt) == opt # None /\ opt.val # <<>>

\* ------------------------------------------------------ build_message
build_message(state, task) ==
    [role |-> "user",
     content |-> ListContent(
         (IF Truthy(task) THEN <<TextPart(<<"Task: ">> \o task.val)>> ELSE <<>>)
         \o <<TextPart(<<"Current URL: ", state.url>>)>>
         \o <<ImagePart(state.screenshot_b64)>>)]

\* ------------------------------------------------------ trim_images
HasImage(msg) ==
    /\ msg.role = "user"
    /\ msg.content.kind = "list"
    /\ \E j \in 1..Len(msg.content.parts) : msg.content.parts[j].type = "image_url"

\* the indices of the image-bearing user messages, in transcript order
RECURSIVE ImageIndices(_, _)
ImageIndices(conversation, n) ==
    IF n = 0 THEN <<>>
    ELSE ImageIndices(conversation, n - 1)
         \o (IF HasImage(conversation[n]) THEN <<n>> ELSE <<>>)

\* seq[:stop] of Python: a negative stop counts from the end
SliceTo(seq, stop) ==
    SubSeq(seq, 1, IF stop < 0
                   THEN (IF Len(seq) + stop < 0 THEN 0 ELSE Len(seq) + stop)
                   ELSE (IF stop > Len(seq) THEN Len(seq) ELSE stop))

StripImages_all_parts(msg) == <<>>
StripImages(msg) ==
    SelectSeq(msg.content.parts, LAMBDA item : item.type # "image_url")

RECURSIVE TrimFrom(_, _, _)
TrimFrom(conversation, n, indices_to_remove) ==
    IF n = 0 THEN <<>>
    ELSE TrimFrom(conversation, n - 1, indices_to_remove)
         \o (IF n \in indices_to_remove
             THEN IF StripImages(conversation[n]) # <<>>
                  THEN <<[role |-> "user",
                          content |-> ListContent(StripImages(conversation[n]))]>>
                  ELSE <<>>
             ELSE <<conversation[n]>>)

TrimTo_first_kept(conversation, max_images, image_indices) ==
    IF Len(image_indices) <= max_images THEN conversation
    ELSE TrimFrom(conversation, Len(conversation),
                  Range(SliceTo(image_indices, max_images)))
TrimTo(conversation, max_images, image_indices) ==
    IF Len(image_indices) <= max_images THEN conversation
    ELSE TrimFrom(conversation, Len(conversation),
                  Range(SliceTo(image_indices, 0 - max_images)))
trim_images(conversation, max_images) ==
    TrimTo(conversation, max_images, ImageIndices(conversation, Len(conversation)))

\* ------------------------------------------------------ execute_action
\* the Browser Controller operation execute_action dispatches, if any
BrowserCall_press_types(action) ==
    IF action.name = "Click"
    THEN <<[op |-> "click", args |-> <<action.args.x, action.args.y>>]>>
    ELSE IF action.name = "Scroll"
    THEN <<[op |-> "scroll",
            args |-> <<action.args.x, action.args.y, action.args.direction>>]>>
    ELSE IF action.name = "Type"
    THEN <<[op |-> "type_text", args |-> <<action.args.content>>]>>
    ELSE IF action.name = "Press"
    THEN <<[op |-> "type_text", args |-> <<action.args.key>>]>>
    ELSE IF action.name = "Wait"
    THEN <<[op |-> "wait", args |-> <<>>]>>
    ELSE <<>>
BrowserCall(action) ==
    IF action.name = "Click"
    THEN <<[op |-> "click", args |-> <<action.args.x, action.args.y>>]>>
    ELSE IF action.name = "Scroll"
    THEN <<[op |-> "scroll",
            args |-> <<action.args.x, action.args.y, action.args.direction>>]>>
    ELSE IF action.name = "Type"
    THEN <<[op |-> "type_text", args |-> <<action.args.content>>]>>
    ELSE IF action.name = "Press"
    THEN <<[op |-> "press_key", args |-> <<action.args.key>>]>>
    ELSE IF action.name = "Wait"
    THEN <<[op |-> "wait", args |-> <<>>]>>
    ELSE <<>>

\* exc: None when the dispatched operation returns, Some(cause) when it raises
execute_action_silent(action, exc) == None
execute_action(action, exc) ==
    IF BrowserCall(action) # <<>> /\ exc # None
    THEN Some(<<"Action execution failed: ">> \o exc.val)
    ELSE None

\* ------------------------------------------------------ the environment
\* what the collaborators may answer: model replies, pages, human replies
Sp == <<" ">>
ReplyGarbage == <<"h", "i">>
ReplyClick == ActionTok \o Sp \o ClickS \o <<"(", "5", "0", "0", ",", "3", "0", "0", ")">>
ReplyFinished == ActionTok \o Sp \o FinishedS \o <<"(", ")">>
ReplyCallUser == ActionTok \o Sp \o CallUserS \o <<"(", "o", "k", "?", ")">>
Replies == {ReplyGarbage, ReplyClick, ReplyFinished, ReplyCallUser}
\* the page shown after the n-th screenshot: every fetch sees a new page
PageUrl(n) == <<"https://shop.example/page/", n>>
UserReplies == {<<"y", "e", "s">>}
Causes == {<<"Browser error">>}
Tasks == {<<"book a flight">>, <<>>}
start_url == "https://www.amazon.com/"

\* ------------------------------------------------------ WebNavAgent.run
VARIABLES
    pc,            \* where run is: start, loop, ask, dispatch, settle, fetch, exit, done
    max_steps,     \* self.max_steps
    max_images,    \* self.max_images
    task,          \* the task text given to run
    steps,         \* the trace: the list of Step
    conversation,  \* the canonical transcript
    state,         \* the loop's current BrowserState (None before start)
    turn,          \* iterations of the for loop begun
    events,        \* the calls made to the collaborators, in order
    raised,        \* the exception leaving the with block, None if none
    result,        \* what run returned: None until it returns
    browser,       \* the Browser Controller: page open, screenshots taken, closes
    tPc, tConv, tK, tOut,  \* a stand-alone application of trim_images
    aPc,           \* a stand-alone parse and execution: ready, parsed, done
    aIn,           \* the pieces the reply is written from
    aReply,        \* the reply text
    aParsed,       \* what parse_action made of it
    aAction,       \* the action the loop goes on with
    aCalls,        \* the calls execute_action made on the browser
    aRet           \* what execute_action returned

runVars == <<pc, max_steps, max_images, task, steps, conversation, state, turn,
             events, raised, result, browser>>
trimVars == <<tPc, tConv, tK, tOut>>
actVars == <<aPc, aIn, aReply, aParsed, aAction, aCalls, aRet>>
pureVars == <<trimVars, actVars>>
vars == <<runVars, trimVars, actVars>>

Step(st, response, action) == [state |-> st, response |-> response, action |-> action]
Last(seq) == seq[Len(seq)]

\* a call to a collaborator: its name, its arguments, the exception it raised
\* (None if it returned) and the value it returned (None if there is none)
Event(op, args, exc, ret) == [op |-> op, args |-> args, exc |-> exc, ret |-> ret]
Outcomes == {None} \cup {Some(c) : c \in Causes}

TrimIdle == tPc = "off" /\ tConv = <<>> /\ tK = 0 /\ tOut = <<>>
ActIdle ==
    /\ aPc = "off" /\ aIn = <<>> /\ aReply = <<>> /\ aParsed = None
    /\ aAction = None /\ aCalls = <<>> /\ aRet = None

Init ==
    /\ pc = "start"
    /\ max_steps \in 0..MaxSteps
    /\ max_images \in 0..MaxImages
    /\ task \in Tasks
    /\ steps = <<>>
    /\ conversation = <<TextMessage("system", SYSTEM_PROMPT)>>
    /\ state = None
    /\ turn = 0
    /\ events = <<>>
    /\ raised = None
    /\ result = None
    /\ browser = [page |-> FALSE, shots |-> 0, closed |-> 0]
    /\ TrimIdle
    /\ ActIdle

\* the user message after a reply that did not parse
ParseErrorMessage_different(msg) ==
    TextMessage("user", <<"Error: ">> \o msg \o <<"\nPlease try a different action.">>)
ParseErrorMessage(msg) ==
    TextMessage("user", <<"Error: ">> \o msg \o <<"\nPlease try again with a valid action.">>)

\* the user message after a dispatch that failed
ExecErrorMessage(msg) ==
    TextMessage("user", <<"Error: ">> \o msg \o <<"\nPlease try a different action.">>)

\* the prompt shown to the human and the user message carrying the answer
AskPrompt_default(action) ==
    <<"Agent asks: ", "Agent needs assistance", "\nYour response: ">>
AskPrompt(action) ==
    <<"Agent asks: ">>
    \o (IF "question" \in DOMAIN action.args
        THEN action.args.question ELSE <<"Agent needs assistance">>)
    \o <<"\nYour response: ">>
UserResponseMessage_as_assistant(user_response) ==
    TextMessage("assistant", <<"User response: ">> \o user_response)
UserResponseMessage(user_response) ==
    TextMessage("user", <<"User response: ">> \o user_response)

\* steps.append(Step(...))
RecordStep_skip_errors(trace, step) ==
    IF step.action.name = "Error" THEN trace ELSE Append(trace, step)
RecordStep_only_latest(trace, step) == <<step>>
RecordStep(trace, step) == Append(trace, step)

\* where the loop body goes once the Step is recorded
AfterStep_no_break(action) ==
    IF Truthy(action.error) THEN "loop"
    ELSE IF action.name = "CallUser" THEN "ask"
    ELSE "dispatch"
AfterStep(action) ==
    IF Truthy(action.error) THEN "loop"
    ELSE IF action.name = "Finished" THEN "exit"
    ELSE IF action.name = "CallUser" THEN "ask"
    ELSE "dispatch"

\* with Browser(...) as browser: state = browser.start(self.start_url);
\* conversation.append(build_message(state, task))
Start_goes_on ==
    /\ pc = "start"
    /\ \/ /\ browser' = [browser EXCEPT !.page = TRUE, !.shots = @ + 1]
          /\ state' = BrowserState(browser'.shots, PageUrl(browser'.shots))
          /\ events' = Append(events, Event("start", <<start_url>>, None, Some(state')))
          /\ conversation' = Append(conversation, build_message(state', Some(task)))
          /\ pc' = "loop"
          /\ UNCHANGED raised
       \/ \E pageOpen \in BOOLEAN, c \in Causes :
            /\ browser' = [browser EXCEPT !.page = pageOpen]
            /\ events' = Append(events, Event("start", <<start_url>>, Some(c), None))
            /\ pc' = "loop"
            /\ UNCHANGED <<state, conversation, raised>>
    /\ UNCHANGED <<max_steps, max_images, task, steps, turn, result, pureVars>>
Start ==
    /\ pc = "start"
    /\ \/ /\ browser' = [browser EXCEPT !.page = TRUE, !.shots = @ + 1]
          /\ state' = BrowserState(browser'.shots, PageUrl(browser'.shots))
          /\ events' = Append(events, Event("start", <<start_url>>, None, Some(state')))
          /\ conversation' = Append(conversation, build_message(state', Some(task)))
          /\ pc' = "loop"
          /\ UNCHANGED raised
       \/ \E pageOpen \in BOOLEAN, c \in Causes :
            /\ browser' = [browser EXCEPT !.page = pageOpen]
            /\ events' = Append(events, Event("start", <<start_url>>, Some(c), None))
            /\ raised' = Some(c)
            /\ pc' = "exit"
            /\ UNCHANGED <<state, conversation>>
    /\ UNCHANGED <<max_steps, max_images, task, steps, turn, result, pureVars>>

\* action = parse_action(response), or the Error action when it raises
ActionOfReply(parsed) == IF parsed.ok THEN parsed.action ELSE ErrorAction(parsed.err)

\* the loop body from the reply to the branch on the action
LlmReply_trims_in_place(response, action) ==
    /\ events' = Append(events,
            Event("llm_fn", <<trim_images(conversation, max_images)>>, None, Some(response)))
    /\ steps' = RecordStep(steps, Step(state, response, action))
    /\ conversation' =
          Append(trim_images(conversation, max_images),
                 TextMessage("assistant", response))
          \o (IF Truthy(action.error) THEN <<ParseErrorMessage(action.error.val)>> ELSE <<>>)
    /\ pc' = AfterStep(action)
    /\ UNCHANGED raised
LlmReply(response, action) ==
    /\ events' = Append(events,
            Event("llm_fn", <<trim_images(conversation, max_images)>>, None, Some(response)))
    /\ steps' = RecordStep(steps, Step(state, response, action))
    /\ conversation' =
          Append(conversation, TextMessage("assistant", response))
          \o (IF Truthy(action.error) THEN <<ParseErrorMessage(action.error.val)>> ELSE <<>>)
    /\ pc' = AfterStep(action)
    /\ UNCHANGED raised

\* one pass of the loop body from the trim to the branch on the action
LlmCall_one_more ==
    /\ pc = "loop"
    /\ turn <= max_steps
    /\ turn' = turn + 1
    /\ \E response \in Replies : LlmReply(response, ActionOfReply(parse_action(response)))
    /\ UNCHANGED <<max_steps, max_images, task, state, result, browser, pureVars>>
LlmCall ==
    /\ pc = "loop"
    /\ turn < max_steps
    /\ turn' = turn + 1
    /\ \/ \E c \in Causes :
            /\ events' = Append(events,
                    Event("llm_fn", <<trim_images(conversation, max_images)>>,
                          Some(c), None))
            /\ raised' = Some(c)
            /\ pc' = "exit"
            /\ UNCHANGED <<steps, conversation>>
       \/ \E response \in Replies :
            LlmReply(response, ActionOfReply(parse_action(response)))
    /\ UNCHANGED <<max_steps, max_images, task, state, result, browser, pureVars>>

\* the CallUser branch: ask the human, append the reply
Ask ==
    /\ pc = "ask"
    /\ \/ \E user_response \in UserReplies :
            /\ events' = Append(events,
                    Event("user_input_fn", <<AskPrompt(Last(steps).action)>>,
                          None, Some(user_response)))
            /\ conversation' = Append(conversation, UserResponseMessage(user_response))
            /\ pc' = "loop"
            /\ UNCHANGED raised
       \/ \E c \in Causes :
            /\ events' = Append(events,
                    Event("user_input_fn", <<AskPrompt(Last(steps).action)>>,
                          Some(c), None))
            /\ raised' = Some(c)
            /\ pc' = "exit"
            /\ UNCHANGED conversation
    /\ UNCHANGED <<max_steps, max_images, task, steps, state, turn, result, browser,
                   pureVars>>

\* error = execute_action(action, browser) and the branch on its result
Dispatched_no_settle(calls, exc, error) ==
    /\ events' = events \o [j \in 1..Len(calls) |->
                              Event(calls[j].op, calls[j].args, exc, None)]
    /\ IF Truthy(error)
       THEN /\ steps' = [steps EXCEPT ![Len(steps)].action.error = error]
            /\ conversation' = Append(conversation, ExecErrorMessage(error.val))
            /\ pc' = "loop"
       ELSE /\ pc' = "fetch"
            /\ UNCHANGED <<steps, conversation>>
Dispatched(calls, exc, error) ==
    /\ events' = events \o [j \in 1..Len(calls) |->
                              Event(calls[j].op, calls[j].args, exc, None)]
    /\ IF Truthy(error)
       THEN /\ steps' = [steps EXCEPT ![Len(steps)].action.error = error]
            /\ conversation' = Append(conversation, ExecErrorMessage(error.val))
            /\ pc' = "loop"
       ELSE /\ pc' = "settle"
            /\ UNCHANGED <<steps, conversation>>
Dispatch ==
    /\ pc = "dispatch"
    /\ \E exc \in Outcomes :
         Dispatched(BrowserCall(Last(steps).action), exc,
                    execute_action(Last(steps).action, exc))
    /\ UNCHANGED <<max_steps, max_images, task, state, turn, raised, result, browser,
                   pureVars>>

\* browser.wait(3000)
Settle_forgiving ==
    /\ pc = "settle"
    /\ \E exc \in Outcomes : events' = Append(events, Event("wait", <<3000>>, exc, None))
    /\ pc' = "fetch"
    /\ UNCHANGED <<max_steps, max_images, task, steps, conversation, state, turn, raised,
                   result, browser, pureVars>>
Settle ==
    /\ pc = "settle"
    /\ \/ /\ events' = Append(events, Event("wait", <<3000>>, None, None))
          /\ pc' = "fetch"
          /\ UNCHANGED raised
       \/ \E c \in Causes :
            /\ events' = Append(events, Event("wait", <<3000>>, Some(c), None))
            /\ pc' = "exit"
            /\ raised' = Some(c)
    /\ UNCHANGED <<max_steps, max_images, task, steps, conversation, state, turn, result,
                   browser, pureVars>>

\* state = browser.get_state(); conversation.append(build_message(state))
Fetch_keeps_state ==
    /\ pc = "fetch"
    /\ \/ /\ browser' = [browser EXCEPT !.shots = @ + 1]
          /\ events' = Append(events,
                  Event("get_state", <<>>, None,
                        Some(BrowserState(browser'.shots, PageUrl(browser'.shots)))))
          /\ conversation' =
                Append(conversation,
                       build_message(BrowserState(browser'.shots, PageUrl(browser'.shots)),
                                     None))
          /\ pc' = "loop"
          /\ UNCHANGED <<raised, state>>
       \/ \E c \in Causes :
            /\ events' = Append(events, Event("get_state", <<>>, Some(c), None))
            /\ raised' = Some(c)
            /\ pc' = "exit"
            /\ UNCHANGED <<state, conversation, browser>>
    /\ UNCHANGED <<max_steps, max_images, task, steps, turn, result, pureVars>>
Fetch ==
    /\ pc = "fetch"
    /\ \/ /\ browser' = [browser EXCEPT !.shots = @ + 1]
          /\ state' = BrowserState(browser'.shots, PageUrl(browser'.shots))
          /\ events' = Append(events, Event("get_state", <<>>, None, Some(state')))
          /\ conversation' = Append(conversation, build_message(state', None))
          /\ pc' = "loop"
          /\ UNCHANGED raised
       \/ \E c \in Causes :
            /\ events' = Append(events, Event("get_state", <<>>, Some(c), None))
            /\ raised' = Some(c)
            /\ pc' = "exit"
            /\ UNCHANGED <<state, conversation, browser>>
    /\ UNCHANGED <<max_steps, max_images, task, steps, turn, result, pureVars>>

\* range(self.max_steps) is used up: the for loop ends
Exhausted ==
    /\ pc = "loop"
    /\ turn >= max_steps
    /\ pc' = "exit"
    /\ UNCHANGED <<max_steps, max_images, task, steps, conversation, state, turn, events,
                   raised, result, browser, pureVars>>

\* Browser.__exit__: close(), then return steps or let the exception go on
Exit_leaks_on_error ==
    /\ pc = "exit"
    /\ IF raised = None
       THEN /\ events' = Append(events, Event("close", <<>>, None, None))
            /\ browser' = [browser EXCEPT !.page = FALSE, !.closed = @ + 1]
       ELSE UNCHANGED <<events, browser>>
    /\ result' = IF raised = None THEN Some(steps) ELSE None
    /\ pc' = "done"
    /\ UNCHANGED <<max_steps, max_images, task, steps, conversation, state, turn, raised,
                   pureVars>>
Exit ==
    /\ pc = "exit"
    /\ events' = Append(events, Event("close", <<>>, None, None))
    /\ browser' = [browser EXCEPT !.page = FALSE, !.closed = @ + 1]
    /\ result' = IF raised = None THEN Some(steps) ELSE None
    /\ pc' = "done"
    /\ UNCHANGED <<max_steps, max_images, task, steps, conversation, state, turn, raised,
                   pureVars>>

Next == Start \/ LlmCall \/ Ask \/ Dispatch \/ Settle \/ Fetch \/ Exhausted \/ Exit

Spec == Init /\ [][Next]_vars

\* ------------------------------------------------------ properties of run
LlmCalls == SelectSeq(events, LAMBDA e : e.op = "llm_fn")
LlmReplies == SelectSeq(events, LAMBDA e : e.op = "llm_fn" /\ e.exc = None)
DispatchOps == {"click", "scroll", "type_text", "press_key", "wait"}
IsSettleWait(e) == e.op = "wait" /\ e.args # <<>>
IsDispatch(e) == e.op \in DispatchOps /\ ~IsSettleWait(e)
IsTurnBrowserOp(e) == e.op \in DispatchOps \cup {"get_state"}

\* every pass of the loop has run to its end and none recorded Finished
BudgetConsumed ==
    /\ turn = max_steps
    /\ Len(steps) = max_steps
    /\ Last(conversation).role = "user"
    /\ (steps = <<>> \/ Last(steps).action.name # "Finished")

\* C1: run makes at most max_steps LLM calls and records at most max_steps
\* steps; when the budget is used up without Finished, run returns the
\* accumulated steps and raises nothing.
C1_AtMostMaxSteps ==
    /\ Len(LlmCalls) <= max_steps
    /\ Len(steps) <= max_steps
    /\ (pc = "done" /\ BudgetConsumed) => (raised = None /\ result = Some(steps))

C1_Witness ==
    /\ pc = "done" /\ BudgetConsumed /\ max_steps = MaxSteps
    /\ Len(LlmCalls) = max_steps /\ result = Some(steps)

\* C2: whichever way run ends (Finished, budget used up, start failure, an
\* exception from the LLM call, the human input, the settle wait or the state
\* fetch), close() has been called on the browser by then.
C2_CloseOnEveryExit ==
    pc = "done" => (browser.closed = 1 /\ ~browser.page /\ Last(events).op = "close")

C2_Witness ==
    /\ pc = "done" /\ raised # None /\ browser.closed = 1
    /\ Len(events) >= 2 /\ events[Len(events) - 1].op = "get_state"

\* C4: a turn whose reply does not parse records an Error step with a
\* non-empty message, appends the assistant reply and exactly one user message
\* "Error: {msg}\nPlease try again with a valid action.", calls nothing on the
\* browser and goes on to the next turn.
C4_ParseErrorTurn ==
    [][(Len(steps') = Len(steps) + 1 /\ ~parse_action(Last(steps').response).ok)
        => LET st == Last(steps')
           IN  /\ st.action.name = "Error"
               /\ st.action.error = Some(parse_action(st.response).err)
               /\ st.action.error.val # <<>>
               /\ conversation' = conversation
                    \o <<TextMessage("assistant", st.response),
                         TextMessage("user", <<"Error: ">> \o st.action.error.val
                             \o <<"\nPlease try again with a valid action.">>)>>
               /\ Len(events') = Len(events) + 1
               /\ Last(events').op = "llm_fn"
               /\ browser' = browser
               /\ state' = state
               /\ raised' = None
               /\ pc' = "loop"]_vars

C4_Witness ==
    /\ pc = "loop" /\ turn < max_steps /\ steps # <<>>
    /\ Last(steps).action.name = "Error"
    /\ Last(conversation).role = "user"

\* C5: when the dispatched browser operation raises, the error
\* "Action execution failed: {cause}" is attached to the action of the Step
\* already recorded, the user message "Error: {msg}\nPlease try a different
\* action." is appended, there is no settle wait and no state fetch, and the
\* loop goes on to the next turn.
C5_ExecutionErrorTurn ==
    [][(pc = "dispatch" /\ Len(events') > Len(events) /\ Last(events').exc # None)
        => LET msg == <<"Action execution failed: ">> \o Last(events').exc.val
           IN  /\ Len(events') = Len(events) + 1
               /\ Last(events').op \in DispatchOps
               /\ Len(steps') = Len(steps)
               /\ \A j \in 1..(Len(steps) - 1) : steps'[j] = steps[j]
               /\ Last(steps') = [Last(steps) EXCEPT !.action.error = Some(msg)]
               /\ conversation' = Append(conversation,
                      TextMessage("user", <<"Error: ">> \o msg
                          \o <<"\nPlease try a different action.">>))
               /\ browser' = browser
               /\ state' = state
               /\ raised' = None
               /\ pc' = "loop"]_vars

C5_Witness ==
    /\ pc = "loop" /\ turn < max_steps /\ steps # <<>>
    /\ Last(steps).action.name = "Click"
    /\ Truthy(Last(steps).action.error)
    /\ Last(events).op = "click" /\ Last(events).exc # None

FailedTurnOps ==
    Cardinality({j \in 1..Len(events) :
                    IsTurnBrowserOp(events[j]) /\ events[j].exc # None})
FailedDispatches ==
    Cardinality({j \in 1..Len(events) : IsDispatch(events[j]) /\ events[j].exc # None})
CorrectiveMessages ==
    Cardinality({j \in 1..Len(conversation) :
                    /\ conversation[j].role = "user"
                    /\ conversation[j].content.kind = "str"
                    /\ Len(conversation[j].content.text) >= 2
                    /\ conversation[j].content.text[2] = "Action execution failed: "})

\* C6 as stated: after a successful start no browser operation that raises
\* during a turn (dispatch, settle wait, state fetch) ends the run; each such
\* failure is answered by a corrective user message.
C6_NoBrowserFailureIsFatal ==
    /\ FailedTurnOps > 0 => raised = None
    /\ CorrectiveMessages = FailedTurnOps

\* C6 amended: a dispatched operation that raises never ends the run, it is
\* answered by a corrective user message and the loop goes on; a settle wait
\* or a state fetch that raises is not recovered: the exception leaves run
\* (after close) and no trace is returned.
C6_OnlyDispatchFailureIsRecovered ==
    /\ CorrectiveMessages = FailedDispatches
    /\ \A j \in 1..Len(events) :
         events[j].exc # None =>
            /\ IsDispatch(events[j]) =>
                 IF j = Len(events) THEN pc \in {"loop", "exit"} /\ raised = None
                 ELSE /\ events[j + 1].op \in {"llm_fn", "close"}
                      /\ events[j + 1].op = "close" => raised = None
            /\ (IsSettleWait(events[j]) \/ events[j].op = "get_state") =>
                 /\ pc \in {"exit", "done"}
                 /\ raised = events[j].exc
                 /\ result = None
                 /\ \/ j = Len(events)
                    \/ j = Len(events) - 1 /\ Last(events).op = "close"

C6_Witness ==
    /\ pc = "done"
    /\ \E i, j \in 1..Len(events) :
         /\ i < j
         /\ IsDispatch(events[i]) /\ events[i].exc # None
         /\ IsSettleWait(events[j]) /\ events[j].exc # None

\* C14: when the browser's start raises, run ends before any turn: no LLM
\* call is made, no Step is recorded, nothing is appended to the transcript,
\* only close() follows, and the exception of start leaves run.
C14_StartFailureAborts ==
    (events # <<>> /\ events[1].op = "start" /\ events[1].exc # None) =>
        /\ LlmCalls = <<>>
        /\ steps = <<>>
        /\ turn = 0
        /\ conversation = <<TextMessage("system", SYSTEM_PROMPT)>>
        /\ \A j \in 2..Len(events) : events[j].op = "close"
        /\ raised = events[1].exc
        /\ result = None
        /\ pc \in {"exit", "done"}

C14_Witness ==
    /\ pc = "done" /\ max_steps > 0
    /\ events[1].op = "start" /\ events[1].exc # None
    /\ raised # None /\ result = None

\* the turn messages of a transcript and those that carry a Task part
IsTurnMessage(msg) == msg.role = "user" /\ msg.content.kind = "list"
HasTaskPart(msg) ==
    /\ IsTurnMessage(msg)
    /\ \E j \in 1..Len(msg.content.parts) :
         /\ msg.content.parts[j].type = "text"
         /\ msg.content.parts[j].text[1] = "Task: "
TurnMessageOf(shot, taskText) ==
    [role |-> "user",
     content |-> [kind |-> "list",
                  parts |-> taskText
                            \o <<[type |-> "text",
                                  text |-> <<"Current URL: ", PageUrl(shot)>>],
                                [type |-> "image_url",
                                 url |-> <<"data:image/png;base64,", shot>>]>>]]
Started == events # <<>> /\ events[1].op = "start" /\ events[1].exc = None

\* C19: the first turn message of a run is built with the task and has the
\* three parts "Task: {task}", "Current URL: {url}", image, in this order;
\* every later turn message has the two parts "Current URL: {url}", image;
\* so exactly one message of the transcript carries the Task part.
C19_TaskPartOnce ==
    Started =>
        /\ conversation[2] =
              TurnMessageOf(1, <<[type |-> "text", text |-> <<"Task: ">> \o task]>>)
        /\ \A j \in 3..Len(conversation) :
              IsTurnMessage(conversation[j])
                  => \E shot \in 2..browser.shots :
                        conversation[j] = TurnMessageOf(shot, <<>>)
        /\ Cardinality({j \in 1..Len(conversation) : HasTaskPart(conversation[j])}) = 1

\* the same statement for a task text that is not empty
TaskPartOnceNonEmpty == task # <<>> => C19_TaskPartOnce
TaskPartOnceNonEmptyReached ==
    /\ Started /\ task # <<>> /\ pc = "done"
    /\ Cardinality({j \in 1..Len(conversation) : IsTurnMessage(conversation[j])}) >= 3

\* C7: a turn whose action is Finished is the last one: nothing follows its
\* Step but the close of the browser (no LLM call, no browser operation, no
\* message), and the Finished step ends the returned trace.
C7_FinishedIsLast ==
    \A j \in 1..Len(steps) :
        steps[j].action.name = "Finished" =>
            /\ j = Len(steps)
            /\ pc \in {"exit", "done"}
            /\ raised = None
            /\ Last(conversation) = TextMessage("assistant", steps[j].response)
            /\ IF pc = "exit" THEN Last(events).op = "llm_fn"
               ELSE /\ Last(events).op = "close"
                    /\ events[Len(events) - 1].op = "llm_fn"
                    /\ result = Some(steps)

C7_Witness ==
    /\ pc = "done" /\ Len(steps) >= 2 /\ turn < max_steps
    /\ Last(steps).action.name = "Finished"
    /\ result = Some(steps)

\* C8: on a CallUser turn the human is asked once, with a prompt that carries
\* the model's question; the answer is appended as "User response: {reply}";
\* nothing is called on the browser, the browser state is unchanged and the
\* loop goes on to the next turn.
C8_CallUserTurn ==
    [][pc = "ask"
        => LET action == Last(steps).action
               e == Last(events')
           IN  /\ action.name = "CallUser"
               /\ Last(events).op = "llm_fn"
               /\ Len(events') = Len(events) + 1
               /\ e.op = "user_input_fn"
               /\ e.args = << <<"Agent asks: ">>
                              \o parse_action(Last(steps).response).action.args.question
                              \o <<"\nYour response: ">> >>
               /\ steps' = steps
               /\ state' = state
               /\ browser' = browser
               /\ e.exc = None =>
                    /\ conversation' = Append(conversation,
                           TextMessage("user", <<"User response: ">> \o e.ret.val))
                    /\ raised' = None
                    /\ pc' = "loop"]_vars

C8_Witness ==
    /\ pc = "loop" /\ turn < max_steps /\ events # <<>>
    /\ Last(events).op = "user_input_fn" /\ Last(events).exc = None
    /\ Last(steps).action.name = "CallUser"

ScenarioReplies == <<ReplyGarbage, ReplyClick, ReplyFinished>>
ScenarioRan ==
    /\ Len(LlmReplies) >= 3
    /\ \A j \in 1..3 : LlmReplies[j].ret.val = ScenarioReplies[j]
    /\ \E j \in 1..Len(events) : events[j].op = "click" /\ events[j].exc # None

\* C9: every turn that receives a reply records exactly one Step, in turn
\* order, so the trace is as long as the number of replies received; the
\* replies unparsable text, Click(500,300) on a browser that raises, Finished()
\* give the three steps Error, Click (with its error), Finished and end the
\* run after three turns.
C9_OneStepPerReply ==
    /\ Len(steps) = Len(LlmReplies)
    /\ \A j \in 1..Len(steps) : steps[j].response = LlmReplies[j].ret.val
    /\ (pc = "done" /\ ScenarioRan) =>
          /\ Len(steps) = 3
          /\ turn = 3
          /\ steps[1].action.name = "Error" /\ Truthy(steps[1].action.error)
          /\ steps[2].action.name = "Click" /\ Truthy(steps[2].action.error)
          /\ steps[2].action.args = [x |-> 500, y |-> 300]
          /\ steps[3].action.name = "Finished" /\ steps[3].action.error = None
          /\ result = Some(steps)

C9_Witness ==
    /\ pc = "done" /\ ScenarioRan /\ max_steps > 3
    /\ Len(steps) = 3 /\ result = Some(steps)

\* ------------------------------------------------------ trim_images alone
\* conversations of at most MaxLen messages, each of one of these shapes;
\* the texts carry the position of the message so that no two are equal
Kinds == {"system", "assistant", "note", "page", "shot", "first", "plain"}

MkMessage(kind, j) ==
    LET tag == IntToStr(j)
    IN  IF kind = "system" THEN TextMessage("system", <<"System prompt">>)
        ELSE IF kind = "assistant" THEN TextMessage("assistant", <<"Reply ">> \o tag)
        ELSE IF kind = "note" THEN TextMessage("user", <<"Error: ">> \o tag)
        ELSE IF kind = "page"
        THEN [role |-> "user",
              content |-> ListContent(<<TextPart(<<"URL: page">> \o tag), ImagePart(j)>>)]
        ELSE IF kind = "shot"
        THEN [role |-> "user", content |-> ListContent(<<ImagePart(j)>>)]
        ELSE IF kind = "first"
        THEN build_message(BrowserState(j, PageUrl(j)), Some(<<"book a flight">>))
        ELSE [role |-> "user", content |-> ListContent(<<TextPart(<<"Note ">> \o tag)>>)]

MkConversation(kinds) == [j \in 1..Len(kinds) |-> MkMessage(kinds[j], j)]

RunIdle ==
    /\ pc = "off" /\ max_steps = 0 /\ max_images = 0 /\ task = <<>>
    /\ steps = <<>> /\ conversation = <<>> /\ state = None /\ turn = 0
    /\ events = <<>> /\ raised = None /\ result = None
    /\ browser = [page |-> FALSE, shots |-> 0, closed |-> 0]

TrimInit ==
    /\ RunIdle
    /\ ActIdle
    /\ tPc = "ready"
    /\ \E n \in 0..MaxLen : \E kinds \in [1..n -> Kinds] : tConv = MkConversation(kinds)
    /\ tK \in 0..MaxK
    /\ tOut = <<>>

TrimStep ==
    /\ tPc = "ready"
    /\ tOut' = trim_images(tConv, tK)
    /\ tPc' = "done"
    /\ UNCHANGED <<tConv, tK, runVars, actVars>>

TrimNext == TrimStep

SpecTrim == TrimInit /\ [][TrimNext]_vars

\* ------------------------------------------ parse_action, execute_action alone
\* replies written from pieces: a form, an action name, up to MaxArgs
\* argument tokens, and whether the text is padded with whitespace
MaxArgs == 3
FooS == <<"F", "o", "o">>
Names == {ClickS, ScrollS, TypeS, PressS, CallUserS, WaitS, FinishedS, FooS}
Tokens == {<<"0">>, <<"5", "0", "0">>, <<"1", "0", "0", "0">>, <<"1", "0", "0", "1">>, <<"-", "1">>,
           <<"U", "P">>, <<"\"", "D", "o", "w", "n", "\"">>, <<"l", "e", "f", "t">>}
TokenLists == UNION {[1..n -> Tokens] : n \in 0..MaxArgs}
Inputs ==
    [form : {"call"}, name : Names, toks : TokenLists, pad : BOOLEAN]
    \cup [form : {"open", "bare", "none"}, name : Names, toks : {<<>>}, pad : BOOLEAN]

RECURSIVE Join(_, _)
Join(toks, sep) ==
    IF toks = <<>> THEN <<>>
    ELSE IF Len(toks) = 1 THEN toks[1]
    ELSE toks[1] \o sep \o Join(Tail(toks), sep)

Chatter == <<"o", "k", "\n">>
ArgsText(in) ==
    IF in.pad THEN Sp \o Join(in.toks, <<",", " ">>) \o Sp ELSE Join(in.toks, <<",">>)
Lead(in) == IF in.pad THEN Chatter \o ActionTok \o Sp ELSE ActionTok
\* call:  Action: Name(args)    open:  Action: Name(    bare:  Action: Name
\* none:  Name()  with no  Action:  before it
ReplyOf(in) ==
    IF in.form = "call" THEN Lead(in) \o in.name \o <<"(">> \o ArgsText(in) \o <<")">>
    ELSE IF in.form = "open" THEN Lead(in) \o in.name \o <<"(">>
    ELSE IF in.form = "bare" THEN Lead(in) \o in.name
    ELSE (IF in.pad THEN Chatter ELSE <<>>) \o in.name \o <<"(", ")">>

ActInit ==
    /\ RunIdle
    /\ TrimIdle
    /\ aPc = "ready"
    /\ aIn \in Inputs
    /\ aReply = ReplyOf(aIn)
    /\ aParsed = None
    /\ aAction = None
    /\ aCalls = <<>>
    /\ aRet = None

\* try: action = parse_action(response)
\* except ActionParseError as e: action = Action(name="Error", error=str(e))
ParseStep ==
    /\ aPc = "ready"
    /\ aParsed' = parse_action(aReply)
    /\ aAction' = ActionOfReply(aParsed')
    /\ aPc' = "parsed"
    /\ UNCHANGED <<aIn, aReply, aCalls, aRet, runVars, trimVars>>

\* execute_action(action, browser) on a browser whose operation returns or raises
CallEvents(calls, exc) ==
    [j \in 1..Len(calls) |-> Event(calls[j].op, calls[j].args, exc, None)]
ExecStep ==
    /\ aPc = "parsed"
    /\ \E exc \in Outcomes :
         /\ aCalls' = CallEvents(BrowserCall(aAction), exc)
         /\ aRet' = execute_action(aAction, exc)
    /\ aPc' = "done"
    /\ UNCHANGED <<aIn, aReply, aParsed, aAction, runVars, trimVars>>

ActNext == ParseStep \/ ExecStep

SpecAct == ActInit /\ [][ActNext]_vars

\* ------------------------------------------------------ properties
ImageCount(conv) == Cardinality({j \in 1..Len(conv) : HasImage(conv[j])})

\* C3: the result of trim_images holds at most max_images messages that
\* still carry an image part, for every budget max_images >= 0.
C3_TrimBoundsImages == tPc = "done" => ImageCount(tOut) <= tK

\* what the claim C10 describes: the oldest n-k image-bearing messages lose
\* their image parts (and are dropped when nothing is left), the rest is kept
RECURSIVE KeepLast(_, _, _)
KeepLast(conv, n, older) ==
    IF n = 0 THEN <<>>
    ELSE KeepLast(conv, n - 1, older)
         \o (IF n \notin older THEN <<conv[n]>>
             ELSE IF \A j \in 1..Len(conv[n].content.parts) :
                        conv[n].content.parts[j].type = "image_url"
             THEN <<>>
             ELSE <<[conv[n] EXCEPT !.content.parts =
                        SelectSeq(@, LAMBDA part : part.type # "image_url")]>>)

ImageBearing(conv) == {j \in 1..Len(conv) : HasImage(conv[j])}
OldestBut(conv, k) ==
    {j \in ImageBearing(conv) :
        Cardinality({o \in ImageBearing(conv) : o > j}) >= k}

\* C10: with n image-bearing messages and a budget k < n, exactly the oldest
\* n-k image-bearing messages are stripped of their image, their text parts
\* stay in place, and every other message passes through unchanged, in order.
C10_TrimKeepsLastK ==
    (tPc = "done" /\ tK < ImageCount(tConv))
        => tOut = KeepLast(tConv, Len(tConv), OldestBut(tConv, tK))

\* C11: trim_images is idempotent: trimming the result of trim_images again
\* with the same budget k >= 0 gives that result back, message for message.
C11_TrimIdempotent == tPc = "done" => trim_images(tOut, tK) = tOut

\* a trim that stripped an image and left messages with and without one
C11_Witness ==
    /\ tPc = "done" /\ tK >= 1 /\ ImageCount(tConv) > 2 * tK
    /\ tOut # tConv /\ ImageCount(tOut) = tK
    /\ trim_images(tOut, tK) = tOut

\* the budget 0, where trim_images strips nothing, is idempotent too
C11_WitnessZero ==
    /\ tPc = "done" /\ tK = 0 /\ ImageCount(tConv) >= 1
    /\ trim_images(tOut, tK) = tOut

\* the same two statements for a budget of at least one image
TrimBoundsImagesPositive == (tPc = "done" /\ tK >= 1) => ImageCount(tOut) <= tK
TrimKeepsLastKPositive ==
    (tPc = "done" /\ tK >= 1 /\ tK < ImageCount(tConv))
        => tOut = KeepLast(tConv, Len(tConv), OldestBut(tConv, tK))

\* ------------------------------------------------------ properties of SpecAct
InRange(v) == 0 <= v /\ v <= 1000

\* C12: every Click or Scroll action that parse_action produces has x and y
\* in 0..1000, and so has every coordinate pair execute_action passes to the
\* browser's click or scroll.
C12_CoordinatesInRange ==
    /\ (aPc # "ready" /\ aParsed.ok /\ aParsed.action.name \in {"Click", "Scroll"})
          => InRange(aParsed.action.args.x) /\ InRange(aParsed.action.args.y)
    /\ \A j \in 1..Len(aCalls) :
          aCalls[j].op \in {"click", "scroll"}
              => InRange(aCalls[j].args[1]) /\ InRange(aCalls[j].args[2])

\* the same statement for Click alone
ClickCoordinatesInRange ==
    /\ (aPc # "ready" /\ aParsed.ok /\ aParsed.action.name = "Click")
          => InRange(aParsed.action.args.x) /\ InRange(aParsed.action.args.y)
    /\ \A j \in 1..Len(aCalls) :
          aCalls[j].op = "click"
              => InRange(aCalls[j].args[1]) /\ InRange(aCalls[j].args[2])

KnownNames == {ClickS, ScrollS, TypeS, PressS, CallUserS, WaitS, FinishedS}

\* an action of the closed set, with the arguments its kind carries
ValidAction(a) ==
    /\ a.error = None
    /\ \/ /\ a.name = "Click" /\ DOMAIN a.args = {"x", "y"}
          /\ a.args.x \in Int /\ a.args.y \in Int
       \/ /\ a.name = "Scroll" /\ DOMAIN a.args = {"x", "y", "direction"}
          /\ a.args.x \in Int /\ a.args.y \in Int
          /\ a.args.direction \in {UpS, DownS}
       \/ a.name = "Type" /\ DOMAIN a.args = {"content"} /\ a.args.content # <<>>
       \/ a.name = "Press" /\ DOMAIN a.args = {"key"} /\ a.args.key # <<>>
       \/ a.name = "CallUser" /\ DOMAIN a.args = {"question"} /\ a.args.question # <<>>
       \/ a.name \in {"Wait", "Finished"} /\ a.args = EmptyArgs

TokenInt(tok) ==
    IF tok = <<"0">> THEN Some(0)
    ELSE IF tok = <<"5", "0", "0">> THEN Some(500)
    ELSE IF tok = <<"1", "0", "0", "0">> THEN Some(1000)
    ELSE IF tok = <<"1", "0", "0", "1">> THEN Some(1001)
    ELSE IF tok = <<"-", "1">> THEN Some(0 - 1)
    ELSE None
IsClickCall == aPc # "ready" /\ aIn.form = "call" /\ aIn.name = ClickS

\* C15: Action: Click(x, y) with integers x, y in 0..1000 parses to
\* Click{x, y} without error; with two integers of which one is outside
\* 0..1000 it fails with the range diagnostic ("... 0-1000 ..."); with a
\* token count other than 2 it fails with an arity diagnostic, with a token
\* that is no integer with the numeric-format diagnostic; the arity is
\* checked first, then the numeric format, then the range.
C15_ClickArguments ==
    IsClickCall =>
        IF Len(aIn.toks) = 0
        THEN ~aParsed.ok /\ aParsed.err = <<"Click requires coordinates: Click(x, y)">>
        ELSE IF Len(aIn.toks) # 2
        THEN /\ ~aParsed.ok
             /\ aParsed.err = <<"Click requires exactly 2 arguments (x, y), got ",
                                DigitSeq[Len(aIn.toks) + 1]>>
        ELSE IF TokenInt(aIn.toks[1]) = None \/ TokenInt(aIn.toks[2]) = None
        THEN ~aParsed.ok /\ aParsed.err[1] = "Invalid argument format: "
        ELSE IF InRange(TokenInt(aIn.toks[1]).val) /\ InRange(TokenInt(aIn.toks[2]).val)
        THEN /\ aParsed.ok
             /\ aParsed.action =
                  [name |-> "Click",
                   args |-> [x |-> TokenInt(aIn.toks[1]).val,
                             y |-> TokenInt(aIn.toks[2]).val],
                   error |-> None]
        ELSE ~aParsed.ok /\ aParsed.err[1] = "Coordinates must be 0-1000, got ("

\* a range failure with both tokens integers, padded with whitespace
C15_Witness ==
    /\ IsClickCall /\ aIn.pad /\ aIn.toks = << <<"1", "0", "0", "0">>, <<"-", "1">> >>
    /\ ~aParsed.ok /\ aParsed.err[1] = "Coordinates must be 0-1000, got ("

\* an out-of-range first token before a token that is no integer: the
\* numeric format is reported, not the range
C15_WitnessOrder ==
    /\ IsClickCall /\ aIn.toks = << <<"1", "0", "0", "1">>, <<"l", "e", "f", "t">> >>
    /\ ~aParsed.ok /\ aParsed.err[1] = "Invalid argument format: "

\* C16: a reply without a parenthesized call  Action: Name(args)  is read as
\* the bare form  Action: Name : Wait and Finished parse to an action without
\* arguments, any other name fails with "Action '{name}' requires arguments
\* but none provided", and a reply without any  Action:  fails with "No valid
\* action found ...".
C16_BareForm ==
    aPc # "ready" =>
        /\ aIn.form \in {"bare", "open"} =>
              IF aIn.name \in {WaitS, FinishedS}
              THEN /\ aParsed.ok
                   /\ aParsed.action =
                        [name |-> IF aIn.name = WaitS THEN "Wait" ELSE "Finished",
                         args |-> EmptyArgs, error |-> None]
              ELSE /\ ~aParsed.ok
                   /\ aParsed.err = <<"Action '">> \o aIn.name
                                    \o <<"' requires arguments but none provided">>
        /\ aIn.form = "none" =>
              /\ ~aParsed.ok
              /\ aParsed.err = <<"No valid action found in response. Expected format: Action: Name(args)">>

C16_Witness ==
    /\ aPc = "parsed" /\ aIn.form = "bare" /\ aIn.name = ScrollS /\ aIn.pad
    /\ ~aParsed.ok /\ Len(aParsed.err) > 2

IsTextCall ==
    aPc # "ready" /\ aIn.form = "call" /\ aIn.name \in {TypeS, PressS, CallUserS}
TextAction(name, value) ==
    IF name = TypeS THEN [name |-> "Type", args |-> [content |-> value], error |-> None]
    ELSE IF name = PressS THEN [name |-> "Press", args |-> [key |-> value], error |-> None]
    ELSE [name |-> "CallUser", args |-> [question |-> value], error |-> None]
TextDiagnostic(name) ==
    IF name = TypeS THEN <<"Type requires content: Type(text to type)">>
    ELSE IF name = PressS THEN <<"Press requires a key: Press(Enter)">>
    ELSE <<"CallUser requires a question: CallUser(your question here)">>
\* the text between the parentheses without the whitespace around it
Unpadded(in) == Join(in.toks, IF in.pad THEN <<",", " ">> ELSE <<",">>)

\* C17 as stated: for Type, Press and CallUser the argument is never split
\* on commas: the entire text between the parentheses becomes the content,
\* key or question, and an empty argument is a parse failure.
C17_WholeArgument ==
    IsTextCall =>
        IF ArgsText(aIn) = <<>>
        THEN ~aParsed.ok /\ aParsed.err = TextDiagnostic(aIn.name)
        ELSE aParsed.ok /\ aParsed.action = TextAction(aIn.name, ArgsText(aIn))

\* C17 amended: the argument is never split on commas: the text between the
\* parentheses, with the whitespace at its two ends removed, becomes the
\* content, key or question as a whole; an argument that is empty or only
\* whitespace is a parse failure.
C17_WholeArgumentStripped ==
    IsTextCall =>
        IF Unpadded(aIn) = <<>>
        THEN ~aParsed.ok /\ aParsed.err = TextDiagnostic(aIn.name)
        ELSE aParsed.ok /\ aParsed.action = TextAction(aIn.name, Unpadded(aIn))

C17_Witness ==
    /\ IsTextCall /\ aIn.name = CallUserS /\ aIn.pad /\ Len(aIn.toks) = 3
    /\ aParsed.ok /\ Len(aParsed.action.args.question) < Len(ArgsText(aIn))

\* the direction an argument token stands for once its quotes are removed
\* and it is lower-cased
TokenDirection(tok) ==
    IF tok = <<"U", "P">> THEN UpS
    ELSE IF tok = <<"\"", "D", "o", "w", "n", "\"">> THEN DownS
    ELSE tok
IsScrollCall == aPc # "ready" /\ aIn.form = "call" /\ aIn.name = ScrollS
ScrollAccepted(toks) ==
    /\ Len(toks) = 3
    /\ TokenInt(toks[1]) # None /\ TokenInt(toks[2]) # None
    /\ TokenDirection(toks[3]) \in {UpS, DownS}

\* C18: Scroll(x, y, direction) parses exactly when there are 3 tokens, x
\* and y are integers and the direction, without its quotes and lower-cased,
\* is up or down; the action carries that normalized direction; with two
\* integers and any other direction it fails with "Scroll direction must be
\* 'up' or 'down', got '{direction}'".
C18_ScrollArguments ==
    IsScrollCall =>
        IF ScrollAccepted(aIn.toks)
        THEN /\ aParsed.ok
             /\ aParsed.action =
                  [name |-> "Scroll",
                   args |-> [x |-> TokenInt(aIn.toks[1]).val,
                             y |-> TokenInt(aIn.toks[2]).val,
                             direction |-> TokenDirection(aIn.toks[3])],
                   error |-> None]
        ELSE /\ ~aParsed.ok
             /\ (/\ Len(aIn.toks) = 3
                 /\ TokenInt(aIn.toks[1]) # None /\ TokenInt(aIn.toks[2]) # None)
                   => aParsed.err = <<"Scroll direction must be 'up' or 'down', got '">>
                                    \o TokenDirection(aIn.toks[3]) \o <<"'">>

C18_Witness ==
    /\ IsScrollCall /\ aIn.pad
    /\ aIn.toks = << <<"5", "0", "0">>, <<"0">>, <<"\"", "D", "o", "w", "n", "\"">> >>
    /\ aParsed.ok /\ aParsed.action.args.direction = DownS

C18_WitnessLeft ==
    /\ IsScrollCall
    /\ aIn.toks = << <<"5", "0", "0">>, <<"0">>, <<"l", "e", "f", "t">> >>
    /\ ~aParsed.ok /\ Len(aParsed.err) = 6

\* C20: execute_action calls exactly one operation of the browser for a
\* Click, Scroll, Type, Press or Wait action: click(x, y), scroll(x, y,
\* direction), type_text(content), press_key(key), wait(), with the action's
\* own arguments; it calls nothing for Finished, CallUser and Error; and it
\* returns None whenever the operation does not raise.
C20_ExecuteDispatch ==
    aPc = "done" =>
        /\ IF aAction.name = "Click"
           THEN /\ Len(aCalls) = 1 /\ aCalls[1].op = "click"
                /\ aCalls[1].args = <<aAction.args.x, aAction.args.y>>
           ELSE IF aAction.name = "Scroll"
           THEN /\ Len(aCalls) = 1 /\ aCalls[1].op = "scroll"
                /\ aCalls[1].args =
                     <<aAction.args.x, aAction.args.y, aAction.args.direction>>
           ELSE IF aAction.name = "Type"
           THEN /\ Len(aCalls) = 1 /\ aCalls[1].op = "type_text"
                /\ aCalls[1].args = <<aAction.args.content>>
           ELSE IF aAction.name = "Press"
           THEN /\ Len(aCalls) = 1 /\ aCalls[1].op = "press_key"
                /\ aCalls[1].args = <<aAction.args.key>>
           ELSE IF aAction.name = "Wait"
           THEN /\ Len(aCalls) = 1 /\ aCalls[1].op = "wait"
                /\ aCalls[1].args = <<>>
           ELSE /\ aAction.name \in {"Finished", "CallUser", "Error"}
                /\ aCalls = <<>>
        /\ (\A j \in 1..Len(aCalls) : aCalls[j].exc = None) => aRet = None

C20_Witness ==
    /\ aPc = "done" /\ aAction.name = "Press" /\ Len(aAction.args.key) > 1
    /\ Len(aCalls) = 1 /\ aCalls[1].exc = None /\ aRet = None

C20_WitnessNoCall ==
    /\ aPc = "done" /\ aAction.name = "CallUser" /\ aCalls = <<>> /\ aRet = None

\* ------------------------------------------------------ more properties of run
Returned(e) == e.exc = None

\* C21: on a turn whose dispatch succeeds the calls come in the order LLM
\* call, dispatch of the action of the Step just recorded, settle wait, state
\* fetch, each once; the assistant reply and then a turn message built from
\* the fetched state, without a Task part, end the transcript; the fetched
\* state is the state the next turn starts from.
C21_SuccessfulTurnOrder ==
    /\ Len(LlmCalls) = turn
    /\ \A j \in 1..Len(events) :
          /\ IsDispatch(events[j]) => j > 1 /\ events[j - 1].op = "llm_fn"
                                          /\ Returned(events[j - 1])
          /\ IsSettleWait(events[j]) => j > 1 /\ IsDispatch(events[j - 1])
                                            /\ Returned(events[j - 1])
          /\ (events[j].op = "get_state") => j > 1 /\ IsSettleWait(events[j - 1])
                                                 /\ Returned(events[j - 1])
    /\ (events # <<>> /\ Last(events).op = "get_state" /\ Returned(Last(events))) =>
          /\ Len(events) >= 5
          /\ events[Len(events) - 3].ret = Some(Last(steps).response)
          /\ <<[op |-> events[Len(events) - 2].op,
                args |-> events[Len(events) - 2].args]>> = BrowserCall(Last(steps).action)
          /\ Last(steps).action.error = None
          /\ state = Last(events).ret.val
          /\ state = BrowserState(browser.shots, PageUrl(browser.shots))
          /\ Last(steps).state # state
          /\ conversation[Len(conversation) - 1] =
                TextMessage("assistant", Last(steps).response)
          /\ Last(conversation) = TurnMessageOf(state.screenshot_b64, <<>>)
          /\ ~HasTaskPart(Last(conversation))
          /\ pc \in {"loop", "exit"}
          /\ raised = None

C21_Witness ==
    /\ pc = "loop" /\ turn = 2 /\ turn < max_steps
    /\ Last(events).op = "get_state" /\ Returned(Last(events))
    /\ events[Len(events) - 2].op = "click"
    /\ Len(SelectSeq(events, LAMBDA e : e.op = "get_state")) = 2

IsPrefix(a, b) == Len(a) <= Len(b) /\ SubSeq(b, 1, Len(a)) = a
\* the transcript holds the screenshots 1..browser.shots, in this order
AllImagesKept ==
    LET idx == ImageIndices(conversation, Len(conversation))
    IN  /\ Len(idx) = browser.shots
        /\ \A j \in 1..Len(idx) :
              Last(conversation[idx[j]].content.parts) = ImagePart(j)

\* C22: the canonical transcript only grows by appends: no step of run, the
\* trimming of the request included, removes or rewrites a message or an
\* image part of it, so it holds every screenshot taken so far while the
\* request is trimmed.
C22_TranscriptOnlyGrows ==
    [][IsPrefix(conversation, conversation') /\ AllImagesKept']_vars

RequestOf(e) == e.args[1]
C22_Witness ==
    /\ pc = "done" /\ browser.shots = 3 /\ ImageCount(conversation) = 3
    /\ Last(LlmCalls).op = "llm_fn"
    /\ ImageCount(RequestOf(Last(LlmCalls))) = 1

\* the replies received and the states the browser returned, by position in
\* the event log
IsReply(e) == e.op = "llm_fn" /\ Returned(e)
IsStateSource(e) == e.op \in {"start", "get_state"} /\ Returned(e)
ReplyPosition(i) ==
    CHOOSE j \in 1..Len(events) :
        /\ IsReply(events[j])
        /\ Cardinality({k \in 1..j : IsReply(events[k])}) = i
LatestStateBefore(j) ==
    events[CHOOSE k \in 1..(j - 1) :
              /\ IsStateSource(events[k])
              /\ \A o \in (k + 1)..(j - 1) : ~IsStateSource(events[o])].ret.val
StatesAfter(j) ==
    {events[k].ret.val : k \in {o \in (j + 1)..Len(events) : IsStateSource(events[o])}}
EndsWithoutFetch(step) ==
    \/ Truthy(step.action.error)
    \/ step.action.name \in {"Error", "CallUser"}

\* C23: the Step of turn i holds the state the browser returned last before
\* the reply of turn i: the state of start, or the state fetched after the
\* latest dispatch that succeeded; it is never a state fetched later; after
\* a turn ending in a parse error, an execution error or CallUser the next
\* Step holds the same state.
C23_StepHoldsPreTurnState ==
    \A i \in 1..Len(steps) :
        /\ steps[i].state = LatestStateBefore(ReplyPosition(i))
        /\ steps[i].state \notin StatesAfter(ReplyPosition(i))
        /\ (i < Len(steps) /\ EndsWithoutFetch(steps[i]))
              => steps[i + 1].state = steps[i].state

C23_Witness ==
    /\ pc = "done" /\ Len(steps) = 4
    /\ steps[1].action.name = "Click" /\ steps[1].action.error = None
    /\ steps[2].action.name = "Error"
    /\ steps[2].state # steps[1].state
    /\ steps[3].state = steps[2].state
    /\ steps[3].action.name = "Click" /\ steps[3].action.error = None
    /\ steps[4].state # steps[3].state

\* C24 as stated: once a Step is appended, no entry of the trace is removed,
\* reordered or modified for the rest of the run.
C24_TraceWriteOnce == [][IsPrefix(steps, steps')]_vars

\* the one change made to a recorded Step: the error of its action is set
AttachesError(old, new) ==
    /\ old.action.error = None
    /\ new.action.error # None
    /\ new.action.error.val[1] = "Action execution failed: "
    /\ new = [old EXCEPT !.action.error = new.action.error]

\* C24 amended: no entry of the trace is removed or reordered, and none is
\* modified but for one change: when the dispatch of the latest Step's
\* action fails, the error "Action execution failed: ..." is set on that
\* action, once, before the next Step is appended.
C24_TraceAppendOnly ==
    [][/\ Len(steps') >= Len(steps)
       /\ \A j \in 1..(Len(steps) - 1) : steps'[j] = steps[j]
       /\ steps # <<>> =>
             \/ steps'[Len(steps)] = Last(steps)
             \/ /\ pc = "dispatch"
                /\ steps' # steps /\ Len(steps') = Len(steps)
                /\ AttachesError(Last(steps), Last(steps'))]_vars

C24_Witness ==
    /\ pc = "done" /\ Len(steps) = 3
    /\ steps[1].action.name = "Click" /\ Truthy(steps[1].action.error)
    /\ steps[2].action.name = "Click" /\ Truthy(steps[2].action.error)

\* C25: the transcript starts with the one system message; after it user
\* and assistant messages alternate, starting with the first turn message;
\* whenever the loop is about to call the LLM the last message is a user
\* message, and every turn completed so far has appended one assistant
\* message followed by one user message.
C25_TranscriptShape ==
    /\ conversation # <<>>
    /\ conversation[1] = TextMessage("system", SYSTEM_PROMPT)
    /\ \A j \in 2..Len(conversation) :
          conversation[j].role = IF j % 2 = 0 THEN "user" ELSE "assistant"
    /\ Started => Len(conversation) >= 2 /\ IsTurnMessage(conversation[2])
    /\ pc = "loop" => /\ Last(conversation).role = "user"
                      /\ Len(conversation) = 2 + 2 * turn
    /\ \A j \in 1..Len(events) :
          events[j].op = "llm_fn" => Last(RequestOf(events[j])).role = "user"

C25_Witness ==
    /\ pc = "loop" /\ turn = 3 /\ turn < max_steps
    /\ steps[1].action.name = "CallUser"
    /\ steps[2].action.name = "Error"
    /\ steps[3].action.name = "Click"
    /\ Len(conversation) = 8

\* a message without its image parts
TextOnly(msg) ==
    IF msg.content.kind = "list"
    THEN [role |-> msg.role,
          content |-> [kind |-> "list",
                       parts |-> SelectSeq(msg.content.parts,
                                           LAMBDA part : part.type # "image_url")]]
    ELSE msg
IsLlmCallStep == Len(events') = Len(events) + 1 /\ Last(events').op = "llm_fn"

\* C26: the request of every LLM call has as many messages as the canonical
\* transcript at that moment, in the same order; each is the transcript's
\* message or that message without its image parts, so every text part (the
\* Task text, every Current URL text, every str message) is intact.
C26_RequestKeepsText ==
    [][IsLlmCallStep =>
         /\ Len(RequestOf(Last(events'))) = Len(conversation)
         /\ \A j \in 1..Len(conversation) :
               /\ RequestOf(Last(events'))[j] \in {conversation[j], TextOnly(conversation[j])}
               /\ TextOnly(RequestOf(Last(events'))[j]) = TextOnly(conversation[j])]_vars

\* a request from which the images of the first two turn messages are gone
C26_Witness ==
    /\ pc = "done" /\ max_images = 1 /\ task # <<>> /\ browser.shots = 3
    /\ Last(LlmCalls).op = "llm_fn"
    /\ Len(RequestOf(Last(LlmCalls))) >= 6
    /\ RequestOf(Last(LlmCalls))[2] = TextOnly(conversation[2])
    /\ HasTaskPart(RequestOf(Last(LlmCalls))[2])
    /\ ImageCount(RequestOf(Last(LlmCalls))) = 1
====
